---- MODULE Spec2Model ----
(***************************************************************************)
(* Model of download_files.py: download_file (the fetcher) and             *)
(* download_files_parallel (the dispatcher over a ThreadPoolExecutor).     *)
(* The scripts remove_first_line_in_file.py and rename_file.py follow at   *)
(* the end, each with its own specification.                               *)
(* Strings are sequences of one-character strings.  Paths follow the       *)
(* POSIX flavour of os.path.                                               *)
(***************************************************************************)
EXTENDS Integers, Sequences, FiniteSets, TLC

(***************************************************************************)
(* Bounds of the model.                                                    *)
(***************************************************************************)
MaxUrls == 2          \* longest URL list of a batch
MaxWorkers == 2       \* largest max_workers argument
MaxChunks == 2        \* most chunks iter_content yields for one response
MaxChunkLen == 1      \* longest chunk (chunk_size is the code's upper limit)
BufSize == 1          \* capacity of the buffered writer behind open(.., "wb")
MaxPathTokens == 3    \* longest URL path, in tokens, of the single-URL runs
MaxCpus == 17         \* most CPUs of a machine (over 16 the default is capped)
MaxFileLen == 4       \* longest markdown file, in characters
MaxFiles == 2         \* most files of the markdown directory
MaxStemLen == 2       \* longest file name of the media directory, before its ending
MaxMedia == 2         \* most files of the media directory

(***************************************************************************)
(* String helpers: str.find, str.rfind, slicing, str.split("/")[-1].       *)
(***************************************************************************)
\* the element of a one-element set: The({F(v) : v \in {e}}) is F(e), with e
\* evaluated once
The(S) == CHOOSE v \in S : TRUE

S1(a) == <<a>>
S2(a, b) == <<a, b>>
S3(a, b, c) == <<a, b, c>>

\* s[from:] (from is a 0-based Python index)
From(s, from) == SubSeq(s, from + 1, Len(s))

\* s[:to]
UpTo(s, to) == SubSeq(s, 1, to)

\* s.find(c, start): 0-based index of the first c at or after start, else -1
Find(s, c, start) ==
    LET hits == {k \in start..(Len(s) - 1) : s[k + 1] = c}
    IN  IF hits = {} THEN -1 ELSE CHOOSE k \in hits : \A m \in hits : k <= m

\* s.rfind(c): 0-based index of the last c, else -1
RFind(s, c) ==
    LET hits == {k \in 0..(Len(s) - 1) : s[k + 1] = c}
    IN  IF hits = {} THEN -1 ELSE CHOOSE k \in hits : \A m \in hits : k >= m

Contains(s, c) == \E k \in 1..Len(s) : s[k] = c

\* url.split("/")[-1]
LastSplit(s) == From(s, RFind(s, "/") + 1)

(***************************************************************************)
(* urllib.parse.urlparse, as far as download_file reads it (.path).        *)
(***************************************************************************)
Letters == {"h", "t", "p", "s", "x", "q", "f", "d"}
HexDigits == {"2", "F"}
SchemeChars == Letters \cup HexDigits \cup {"+", "-", "."}
UsesParams == {<<>>, <<"h", "t", "t", "p">>, <<"h", "t", "t", "p", "s">>}

\* the scheme is split off when the text before the first ":" is a valid scheme
HasScheme(url) ==
    LET i == Find(url, ":", 0)
    IN  /\ i > 0
        /\ url[1] \in Letters
        /\ \A k \in 1..i : url[k] \in SchemeChars

SchemeOf(url) == IF HasScheme(url) THEN UpTo(url, Find(url, ":", 0)) ELSE <<>>

AfterScheme(url) == IF HasScheme(url) THEN From(url, Find(url, ":", 0) + 1) ELSE url

\* _splitnetloc(url, 2): the netloc ends at the first of "/", "?", "#"
NetlocEnd(u) ==
    LET ds == {Find(u, c, 2) : c \in {"/", "?", "#"}} \ {-1}
    IN  IF ds = {} THEN Len(u) ELSE CHOOSE d \in ds : \A e \in ds : d <= e

AfterNetloc(u) == IF Len(u) >= 2 /\ UpTo(u, 2) = S2("/", "/") THEN From(u, NetlocEnd(u)) ELSE u

\* url.split("#", 1)[0], then url.split("?", 1)[0]
CutAt(u, c) == IF Contains(u, c) THEN UpTo(u, Find(u, c, 0)) ELSE u

\* _splitparams(url)[0]
SplitParams(u) ==
    LET i == IF Contains(u, "/") THEN Find(u, ";", RFind(u, "/")) ELSE Find(u, ";", 0)
    IN  IF i < 0 THEN u ELSE UpTo(u, i)

\* urlparse(url).path: each step works on the value the step before left
UrlPath(url) ==
    The({IF SchemeOf(url) \in UsesParams /\ Contains(u, ";") THEN SplitParams(u) ELSE u :
            u \in {CutAt(q, "?") :
                q \in {CutAt(r, "#") :
                    r \in {AfterNetloc(a) : a \in {AfterScheme(url)}}}}})

(***************************************************************************)
(* urllib.parse.unquote: "%XX" becomes the character of that byte; bytes   *)
(* that are not valid UTF-8 decode to U+FFFD; a "%" not followed by two    *)
(* hex digits stays.                                                       *)
(***************************************************************************)
HexVal(c) == IF c = "2" THEN 2 ELSE 15

Chr(code) ==
    CASE code = 34 -> "\""
      [] code = 47 -> "/"
      [] OTHER -> "U+FFFD"

RECURSIVE Unquote(_)
Unquote(s) ==
    IF s = <<>> THEN <<>>
    ELSE IF s[1] = "%" /\ Len(s) >= 3 /\ s[2] \in HexDigits /\ s[3] \in HexDigits
         THEN The({<<Chr(16 * HexVal(s[2]) + HexVal(s[3]))>> \o Unquote(t) : t \in {From(s, 3)}})
         ELSE The({<<s[1]>> \o Unquote(t) : t \in {Tail(s)}})

\* posixpath.basename(p): p[p.rfind("/") + 1:]
Basename(p) == From(p, RFind(p, "/") + 1)

DefaultName ==
    <<"d", "o", "w", "n", "l", "o", "a", "d", "e", "d", "_", "f", "i", "l", "e">>

\* a download_file without its second fallback
OrDefaultMissing(name) == name

\* second fallback of download_file (lines 35-36)
OrDefault(name) == IF name = <<>> THEN DefaultName ELSE name

\* first fallback of download_file (lines 31-32)
OrLastToken(name, url) == IF name = <<>> THEN LastSplit(url) ELSE name

\* a filename taken from the path as it stands in the URL, not decoded
FileNameUndecoded(url) ==
    The({OrDefault(f) : f \in {OrLastToken(b, url) : b \in {Basename(p) : p \in {UrlPath(url)}}}})

\* the destination filename download_file derives from url (lines 27-36)
FileName(url) ==
    The({OrDefault(f) :
            f \in {OrLastToken(b, url) :
                b \in {Basename(d) : d \in {Unquote(p) : p \in {UrlPath(url)}}}}})

FolderPath == <<"d">>

\* os.path.join(folder_path, filename) for a relative filename
FilePath(url) == FolderPath \o <<"/">> \o FileName(url)

(***************************************************************************)
(* The exceptions download_file can meet and its except clauses.           *)
(***************************************************************************)
\* the classes each exception is an instance of (requests.exceptions)
Ancestors(e) ==
    CASE e = "HTTPError" -> {"HTTPError", "RequestException", "OSError", "Exception"}
      [] e = "Timeout" -> {"Timeout", "RequestException", "OSError", "Exception"}
      [] e = "ConnectionError" -> {"ConnectionError", "RequestException", "OSError", "Exception"}
      [] e = "OSError" -> {"OSError", "Exception"}
      [] e = "ValueError" -> {"ValueError", "Exception"}

\* the except clauses of download_file, in source order (lines 65 and 68)
ExceptClauses == <<"RequestException", "Timeout">>

\* the first clause that matches e, "none" when the exception propagates
HandledBy(e) ==
    LET hits == {k \in 1..Len(ExceptClauses) : ExceptClauses[k] \in Ancestors(e)}
    IN  IF hits = {} THEN "none"
        ELSE ExceptClauses[CHOOSE k \in hits : \A m \in hits : k <= m]

\* what the future of a download_file call that met e ends with
ResultOf(e) == IF HandledBy(e) = "none" THEN "raised" ELSE "None"

\* a dispatcher that catches only what download_file catches
DispatcherCatchesRequests(e) == "RequestException" \in Ancestors(e)

\* the except clause of the dispatcher's loop body (line 113)
DispatcherCatches(e) == "Exception" \in Ancestors(e)

(***************************************************************************)
(* The file behind open(file_path, "wb"): bytes are integers, 0 is the     *)
(* byte of a hole, OldByte the byte of a file that was there before.       *)
(***************************************************************************)
OldByte == 0 - 1
OldContent == <<OldByte, OldByte>>
\* the k-th byte of the body of request i
Byte(i, k) == 10 * i + k

\* the k-th chunk of request i: len bytes, numbered after the n received so far
ChunkOf(i, n, len) == IF len = 0 THEN <<>> ELSE [k \in 1..len |-> Byte(i, n + k)]

RECURSIVE Concat(_)
Concat(chunks) == IF chunks = <<>> THEN <<>> ELSE Head(chunks) \o Concat(Tail(chunks))

\* write(2) of data at offset pos of a file holding content
RawWrite(content, pos, data) ==
    IF data = <<>> THEN content
    ELSE LET old == Len(content)
             new == IF pos + Len(data) > old THEN pos + Len(data) ELSE old
         IN  [k \in 1..new |->
                 IF k > pos /\ k <= pos + Len(data) THEN data[k - pos]
                 ELSE IF k <= old THEN content[k] ELSE 0]

\* file.write(chunk) on the buffered writer: what goes to the file now ...
Flushed(buffer, chunk) ==
    IF Len(buffer) + Len(chunk) <= BufSize THEN <<>>
    ELSE IF Len(chunk) > BufSize THEN buffer \o chunk ELSE buffer

\* ... and what stays in the buffer
Buffered(buffer, chunk) ==
    IF Len(buffer) + Len(chunk) <= BufSize THEN buffer \o chunk
    ELSE IF Len(chunk) > BufSize THEN <<>> ELSE chunk

\* line 59: empty keep-alive chunks are not written
Written(chunk) == chunk # <<>>

(***************************************************************************)
(* State.                                                                  *)
(***************************************************************************)
VARIABLES
    parts,             \* the parts each input URL was put together from
    urls,              \* the urls argument of download_files_parallel
    given,             \* the max_workers argument as the caller passed it
    cpu_count,         \* what multiprocessing.cpu_count() answers
    max_workers,       \* the max_workers variable of download_files_parallel
    dir_exists,        \* whether folder_path exists
    files,             \* file path -> content, for the files of folder_path
    pc_main,           \* where the dispatcher is
    main_exc,          \* whether an exception is propagating out of the dispatcher
    submitted,         \* number of executor.submit calls made
    finished,          \* as_completed: futures found done when it was called
    waiter,            \* as_completed: futures that finished since, in order
    processed,         \* futures the loop body of lines 106-114 has run for, in order
    downloaded_files,  \* the list of line 97
    pc,                \* where each download_file call is
    file_path,         \* the file_path of each call (line 38), <<>> before it is set
    thread,            \* the pool thread running each call, 0 for none
    exc,               \* the exception each call met, "none" for none
    handler,           \* the except clause of download_file that handled it
    result,            \* what each future holds: "pending", "path", "None", "raised"
    recv,              \* the chunks iter_content has yielded to each call
    buf,               \* the buffered, not yet written bytes of each open file
    fpos,              \* the offset of each open file
    completed          \* the requests in the order their futures were set

\* remove_first_line_in_file.py
VARIABLES
    strip_pc,          \* where the script is
    directory,         \* the files of directory_path: name -> content
    directory_before,  \* the same when the script started
    listing            \* the names os.listdir returned that the loop has yet to visit

\* rename_file.py
VARIABLES
    rename_pc,         \* where the script is
    media,             \* the files of DIR: name -> the file (known by its first name)
    media_before,      \* the same when the script started
    globbed,           \* the names glob.glob returned that the loop has yet to visit
    printed            \* the names the second loop printed

stripVars == <<strip_pc, directory, directory_before, listing>>
renameVars == <<rename_pc, media, media_before, globbed, printed>>
scriptVars == <<stripVars, renameVars>>

downloadVars ==
    <<parts, urls, given, cpu_count, max_workers, dir_exists, files, pc_main, main_exc, submitted, finished,
      waiter, processed, downloaded_files, pc, file_path, thread, exc, handler, result, recv,
      buf, fpos, completed>>

vars == <<downloadVars, scriptVars>>

mainVars == <<pc_main, main_exc, submitted, finished, waiter, processed, downloaded_files>>
inputVars == <<parts, urls, given, cpu_count, max_workers>>
fsVars == <<dir_exists, files>>
ioVars == <<recv, buf, fpos>>

Requests == 1..Len(urls)

\* the states of the spec's per-request state machine
InFlightPcs == {"makedirs", "request", "open", "stream"}
Status(i) ==
    CASE pc[i] \in {"unsubmitted", "queued"} -> "Pending"
      [] pc[i] \in InFlightPcs -> "InFlight"
      [] pc[i] = "done" /\ result[i] = "path" -> "Succeeded"
      [] OTHER -> "Failed"

InFlight == {i \in Requests : Status(i) = "InFlight"}

(***************************************************************************)
(* Inputs: URLs put together from a path, a parameter, a query and a       *)
(* fragment the way urlunparse does.                                       *)
(***************************************************************************)
Https == <<"h", "t", "t", "p", "s", ":", "/", "/", "h">>

Escape == S3("%", "2", "F")
PathTokens == {S1("/"), S1("x"), Escape}

RECURSIVE Flatten(_)
Flatten(tokens) == IF tokens = <<>> THEN <<>> ELSE Head(tokens) \o Flatten(Tail(tokens))

\* the paths of the URLs: empty, or tokens after a leading "/"
TokenPaths ==
    {<<>>} \cup
    {<<S1("/")>> \o rest : rest \in UNION {[1..n -> PathTokens] : n \in 0..(MaxPathTokens - 1)}}

UrlParts ==
    [path : TokenPaths,
     params : {<<>>, S2(";", "p")},
     query : {<<>>, S2("?", "q"), S3("?", "q", "/")},
     fragment : {<<>>, S2("#", "f"), S2("#", "/")}]

\* scheme://netloc, then path;params?query#fragment
UrlOf(p) == Https \o Flatten(p.path) \o p.params \o p.query \o p.fragment

Plain(path) == [path |-> path, params |-> <<>>, query |-> <<>>, fragment |-> <<>>]

\* URLs of the batch runs: https://h/x and https://h/x?q share a filename,
\* https://h/ gets the default name
BatchParts ==
    {Plain(<<S1("/"), S1("x")>>),
     [Plain(<<S1("/"), S1("x")>>) EXCEPT !.query = S2("?", "q")],
     Plain(<<S1("/")>>)}

PartLists == UNION {[1..n -> BatchParts] : n \in 0..MaxUrls}

\* the file system before the run: no folder, an empty folder, or a folder
\* that already holds a file at the first request's destination
InitFs(us) ==
    \/ /\ dir_exists = FALSE
       /\ files = <<>>
    \/ /\ dir_exists = TRUE
       /\ files = <<>>
    \/ /\ us # <<>>
       /\ dir_exists = TRUE
       /\ files = (FilePath(us[1]) :> OldContent)

\* the two scripts are other programs: they are not running
ScriptsOff ==
    /\ strip_pc = "off"
    /\ directory = <<>>
    /\ directory_before = <<>>
    /\ listing = {}
    /\ rename_pc = "off"
    /\ media = <<>>
    /\ media_before = <<>>
    /\ globbed = {}
    /\ printed = {}

InitRun ==
    /\ ScriptsOff
    /\ InitFs(urls)
    /\ pc_main = "start"
    /\ main_exc = FALSE
    /\ submitted = 0
    /\ finished = {}
    /\ waiter = <<>>
    /\ processed = <<>>
    /\ downloaded_files = <<>>
    /\ pc = [i \in Requests |-> "unsubmitted"]
    /\ file_path = [i \in Requests |-> <<>>]
    /\ thread = [i \in Requests |-> 0]
    /\ exc = [i \in Requests |-> "none"]
    /\ handler = [i \in Requests |-> "none"]
    /\ result = [i \in Requests |-> "pending"]
    /\ recv = [i \in Requests |-> <<>>]
    /\ buf = [i \in Requests |-> <<>>]
    /\ fpos = [i \in Requests |-> 0]
    /\ completed = <<>>

\* max_workers=None (line 73); the values a caller gives are positive
None == 0

\* a batch of up to MaxUrls URLs, the caller giving max_workers
Init ==
    /\ parts \in PartLists
    /\ urls = [i \in 1..Len(parts) |-> UrlOf(parts[i])]
    /\ given \in 1..MaxWorkers
    /\ cpu_count = 1
    /\ max_workers = given
    /\ InitRun

\* one URL, with max_workers given or left out, on machines of 1..MaxCpus CPUs
InitPool ==
    /\ parts \in {<<p>> : p \in BatchParts}
    /\ urls = <<UrlOf(parts[1])>>
    /\ given \in {None} \cup 1..MaxWorkers
    /\ cpu_count \in 1..MaxCpus
    /\ max_workers = given
    /\ InitRun

\* one URL, one worker: a single call of download_file
InitName ==
    /\ parts \in {<<p>> : p \in UrlParts}
    /\ urls = <<UrlOf(parts[1])>>
    /\ given = 1
    /\ cpu_count = 1
    /\ max_workers = given
    /\ InitRun

(***************************************************************************)
(* The dispatcher: download_files_parallel, lines 97-116.                  *)
(***************************************************************************)
\* a dictionary keyed by url instead: a later duplicate replaces the earlier future
TrackedByUrl(us) == {i \in 1..Len(us) : \A j \in 1..Len(us) : j > i => us[j] # us[i]}

\* the keys of future_to_url: one future per submit call (lines 101-103)
TrackedFutures(us) == 1..Len(us)

\* a pool with one thread per url, whatever max_workers says
PoolSizePerUrl == Len(urls)

\* ThreadPoolExecutor(max_workers=max_workers), line 99
PoolSize == max_workers

\* min(a, b)
Min(a, b) == CHOOSE m \in {a, b} : m <= a /\ m <= b

\* line 93
WorkersPerCpu == 2
WorkersCap == 32

\* a default without the cap
DefaultWorkersUncapped(cpus) == cpus * WorkersPerCpu

\* lines 92-94: min(cpu_count * 2, 32)
DefaultWorkers(cpus) == Min(cpus * WorkersPerCpu, WorkersCap)

\* lines 87-95: the default replaces a max_workers that was not given
SetWorkers ==
    /\ pc_main = "start"
    /\ max_workers' = IF max_workers = None THEN DefaultWorkers(cpu_count) ELSE max_workers
    /\ pc_main' = "submit"
    /\ UNCHANGED <<scriptVars, parts, urls, given, cpu_count, fsVars, ioVars, main_exc, submitted,
                   finished, waiter, processed, downloaded_files, pc, file_path, thread,
                   exc, handler, result, completed>>

\* executor.submit(download_file, url, folder_path) for the next url
Submit ==
    /\ pc_main = "submit"
    /\ submitted < Len(urls)
    /\ submitted' = submitted + 1
    /\ pc' = [pc EXCEPT ![submitted + 1] = "queued"]
    /\ UNCHANGED <<scriptVars, inputVars, fsVars, ioVars, pc_main, main_exc, finished, waiter,
                   processed, downloaded_files, file_path, thread, exc, handler,
                   result, completed>>

\* as_completed is entered: the futures already done are set aside, a waiter
\* is installed for the others
\* an as_completed that forgets the futures done before it was called
AlreadyDoneForgotten == {}

AlreadyDone == {f \in TrackedFutures(urls) : result[f] # "pending"}

AsCompleted ==
    /\ pc_main = "submit"
    /\ submitted = Len(urls)
    /\ finished' = AlreadyDone
    /\ waiter' = <<>>
    /\ pc_main' = "collect"
    /\ UNCHANGED <<scriptVars, inputVars, fsVars, ioVars, main_exc, submitted, processed,
                   downloaded_files, pc, file_path, thread, exc, handler, result,
                   completed>>

\* an as_completed that hands out the newest finished future first
NextYieldNewestFirst ==
    IF finished # {} THEN finished
    ELSE IF waiter # <<>> THEN {waiter[Len(waiter)]} ELSE {}

\* the futures as_completed may yield next: any of those found done at entry
\* (a set, in no order), then the others in the order they finished
NextYield ==
    IF finished # {} THEN finished
    ELSE IF waiter # <<>> THEN {Head(waiter)} ELSE {}

\* a loop body without the test of line 110
AppendedAlways(res) == TRUE

\* line 110: if file_path
Appended(res) == res = "path"

NoneValue == <<"N", "o", "n", "e">>

\* future.result() when it returns
ReturnValue(f) == IF result[f] = "path" THEN file_path[f] ELSE NoneValue

\* one turn of the loop of lines 106-114 for future f
Collect(f) ==
    /\ pc_main = "collect"
    /\ f \in NextYield
    /\ finished' = finished \ {f}
    /\ waiter' = IF finished # {} THEN waiter ELSE Tail(waiter)
    /\ processed' = Append(processed, f)
    /\ IF result[f] = "raised"
       THEN /\ main_exc' = ~DispatcherCatches(exc[f])
            /\ pc_main' = IF DispatcherCatches(exc[f]) THEN "collect" ELSE "shutdown"
            /\ UNCHANGED downloaded_files
       ELSE /\ downloaded_files' =
                 IF Appended(result[f]) THEN Append(downloaded_files, ReturnValue(f))
                 ELSE downloaded_files
            /\ UNCHANGED <<main_exc, pc_main>>
    /\ UNCHANGED <<scriptVars, inputVars, fsVars, ioVars, submitted, pc, file_path, thread, exc,
                   handler, result, completed>>

\* as_completed is exhausted: every tracked future has been yielded
EndLoop ==
    /\ pc_main = "collect"
    /\ \A f \in TrackedFutures(urls) : \E k \in 1..Len(processed) : processed[k] = f
    /\ pc_main' = "shutdown"
    /\ UNCHANGED <<scriptVars, inputVars, fsVars, ioVars, main_exc, submitted, finished, waiter,
                   processed, downloaded_files, pc, file_path, thread, exc, handler,
                   result, completed>>

\* the with block of line 99 ends: shutdown(wait=True) joins the pool threads,
\* then line 116 returns (or the exception leaves the function)
Shutdown ==
    /\ pc_main = "shutdown"
    /\ \A i \in Requests : pc[i] = "done"
    /\ pc_main' = IF main_exc THEN "raised" ELSE "returned"
    /\ UNCHANGED <<scriptVars, inputVars, fsVars, ioVars, main_exc, submitted, finished, waiter,
                   processed, downloaded_files, pc, file_path, thread, exc, handler,
                   result, completed>>

(***************************************************************************)
(* The pool threads running download_file, lines 22-70.                    *)
(***************************************************************************)
IdleThreads == (1..PoolSize) \ {thread[j] : j \in Requests}

\* a pool thread takes the oldest queued work item
Start(i) ==
    /\ i \in Requests
    /\ pc[i] = "queued"
    /\ \A j \in Requests : j < i => pc[j] # "queued"
    /\ IdleThreads # {}
    /\ thread' = [thread EXCEPT ![i] = CHOOSE t \in IdleThreads : \A u \in IdleThreads : t <= u]
    /\ pc' = [pc EXCEPT ![i] = "makedirs"]
    /\ UNCHANGED <<scriptVars, inputVars, fsVars, ioVars, mainVars, file_path, exc, handler, result,
                   completed>>

\* the call ends: the future is set and its waiters are told
Finish(i, e, res) ==
    /\ exc' = [exc EXCEPT ![i] = e]
    /\ handler' = [handler EXCEPT ![i] = IF e = "none" THEN "none" ELSE HandledBy(e)]
    /\ result' = [result EXCEPT ![i] = res]
    /\ pc' = [pc EXCEPT ![i] = "done"]
    /\ thread' = [thread EXCEPT ![i] = 0]
    /\ completed' = Append(completed, i)
    /\ waiter' = IF pc_main = "collect" /\ i \in TrackedFutures(urls)
                 THEN Append(waiter, i) ELSE waiter
    /\ UNCHANGED <<scriptVars, inputVars, pc_main, main_exc, submitted, finished, processed,
                   downloaded_files>>

\* a failure that puts the request back in the queue for another attempt
FailRequeued(i, e) ==
    /\ exc' = [exc EXCEPT ![i] = e]
    /\ pc' = [pc EXCEPT ![i] = "queued"]
    /\ thread' = [thread EXCEPT ![i] = 0]
    /\ UNCHANGED <<scriptVars, inputVars, pc_main, main_exc, submitted, finished, waiter, processed,
                   downloaded_files, handler, result, completed>>

\* the call met exception e
Fail(i, e) == Finish(i, e, ResultOf(e))

\* a call that opens its file before it sends the request
MakeDirsAndOpen(i) ==
    /\ i \in Requests
    /\ pc[i] = "makedirs"
    /\ dir_exists' = TRUE
    /\ file_path' = [file_path EXCEPT ![i] = FilePath(urls[i])]
    /\ files' = (FilePath(urls[i]) :> <<>>) @@ files
    /\ pc' = [pc EXCEPT ![i] = "request"]
    /\ UNCHANGED <<scriptVars, inputVars, ioVars, mainVars, thread, exc, handler, result, completed>>

\* lines 24-38: os.makedirs(folder_path, exist_ok=True), then the filename
MakeDirs(i) ==
    /\ i \in Requests
    /\ pc[i] = "makedirs"
    /\ dir_exists' = TRUE
    /\ file_path' = [file_path EXCEPT ![i] = FilePath(urls[i])]
    /\ pc' = [pc EXCEPT ![i] = "request"]
    /\ UNCHANGED <<scriptVars, inputVars, files, ioVars, mainVars, thread, exc, handler, result,
                   completed>>

\* os.makedirs cannot create the folder
MakeDirsFail(i) ==
    /\ i \in Requests
    /\ pc[i] = "makedirs"
    /\ ~dir_exists
    /\ Fail(i, "OSError")
    /\ UNCHANGED <<fsVars, ioVars, file_path>>

\* lines 41-45 pass: a success status and a well-formed content-length
Request(i) ==
    /\ i \in Requests
    /\ pc[i] = "request"
    /\ pc' = [pc EXCEPT ![i] = "open"]
    /\ UNCHANGED <<scriptVars, inputVars, fsVars, ioVars, mainVars, file_path, thread, exc, handler,
                   result, completed>>

\* what lines 41-45 can raise: requests.get a Timeout or a ConnectionError,
\* raise_for_status an HTTPError, int() a ValueError
RequestErrors == {"Timeout", "ConnectionError", "HTTPError", "ValueError"}

RequestFail(i, e) ==
    /\ i \in Requests
    /\ pc[i] = "request"
    /\ e \in RequestErrors
    /\ Fail(i, e)
    /\ UNCHANGED <<fsVars, ioVars, file_path>>

\* an open that creates the file but keeps the bytes of one already there
OpenKeeping(i) ==
    /\ i \in Requests
    /\ pc[i] = "open"
    /\ files' = IF file_path[i] \in DOMAIN files THEN files ELSE (file_path[i] :> <<>>) @@ files
    /\ fpos' = [fpos EXCEPT ![i] = 0]
    /\ buf' = [buf EXCEPT ![i] = <<>>]
    /\ pc' = [pc EXCEPT ![i] = "stream"]
    /\ UNCHANGED <<scriptVars, inputVars, dir_exists, recv, mainVars, file_path, thread, exc, handler,
                   result, completed>>

\* line 49: open(file_path, "wb") creates or truncates the file
Open(i) ==
    /\ i \in Requests
    /\ pc[i] = "open"
    /\ files' = (file_path[i] :> <<>>) @@ files
    /\ fpos' = [fpos EXCEPT ![i] = 0]
    /\ buf' = [buf EXCEPT ![i] = <<>>]
    /\ pc' = [pc EXCEPT ![i] = "stream"]
    /\ UNCHANGED <<scriptVars, inputVars, dir_exists, recv, mainVars, file_path, thread, exc, handler,
                   result, completed>>

OpenFail(i) ==
    /\ i \in Requests
    /\ pc[i] = "open"
    /\ Fail(i, "OSError")
    /\ UNCHANGED <<fsVars, ioVars, file_path>>

\* lines 58-61: iter_content yields a chunk of len bytes
Chunk(i, len) ==
    /\ i \in Requests
    /\ pc[i] = "stream"
    /\ Len(recv[i]) < MaxChunks
    /\ LET c == ChunkOf(i, Len(Concat(recv[i])), len)
           out == IF Written(c) THEN Flushed(buf[i], c) ELSE <<>>
       IN  /\ recv' = [recv EXCEPT ![i] = Append(@, c)]
           /\ files' = [files EXCEPT ![file_path[i]] = RawWrite(@, fpos[i], out)]
           /\ fpos' = [fpos EXCEPT ![i] = @ + Len(out)]
           /\ buf' = [buf EXCEPT ![i] = IF Written(c) THEN Buffered(@, c) ELSE @]
    /\ UNCHANGED <<scriptVars, inputVars, dir_exists, mainVars, pc, file_path, thread, exc, handler,
                   result, completed>>

\* a close that drops the bytes still in the buffer
CloseWithoutFlush(i) ==
    /\ buf' = [buf EXCEPT ![i] = <<>>]
    /\ UNCHANGED <<fsVars, fpos, recv, file_path>>

\* leaving the with block closes the file: the buffer is written out
Close(i) ==
    /\ files' = [files EXCEPT ![file_path[i]] = RawWrite(@, fpos[i], buf[i])]
    /\ fpos' = [fpos EXCEPT ![i] = @ + Len(buf[i])]
    /\ buf' = [buf EXCEPT ![i] = <<>>]
    /\ UNCHANGED <<dir_exists, recv, file_path>>

\* iter_content is exhausted; line 63 returns file_path
StreamEnd(i) ==
    /\ i \in Requests
    /\ pc[i] = "stream"
    /\ Close(i)
    /\ Finish(i, "none", "path")

\* iter_content raises: the connection broke or timed out while streaming
StreamFail(i) ==
    /\ i \in Requests
    /\ pc[i] = "stream"
    /\ Close(i)
    /\ Fail(i, "ConnectionError")

\* writing the buffered bytes to the file fails: they are lost
WriteFail(i) ==
    /\ i \in Requests
    /\ pc[i] = "stream"
    /\ buf[i] # <<>>
    /\ buf' = [buf EXCEPT ![i] = <<>>]
    /\ Fail(i, "OSError")
    /\ UNCHANGED <<fsVars, recv, fpos, file_path>>

Main == SetWorkers \/ Submit \/ AsCompleted \/ (\E f \in Requests : Collect(f)) \/ EndLoop \/ Shutdown

Worker(i) ==
    \/ Start(i)
    \/ MakeDirs(i)
    \/ MakeDirsFail(i)
    \/ Request(i)
    \/ \E e \in RequestErrors : RequestFail(i, e)
    \/ Open(i)
    \/ OpenFail(i)
    \/ \E len \in 0..MaxChunkLen : Chunk(i, len)
    \/ StreamEnd(i)
    \/ StreamFail(i)
    \/ WriteFail(i)

Next == Main \/ \E i \in 1..MaxUrls : Worker(i)

Spec == Init /\ [][Next]_vars

\* the pool threads and the dispatcher's thread all get to run, and every
\* request is answered in the end
FairSpec == Spec /\ WF_vars(Main) /\ \A i \in 1..MaxUrls : WF_vars(Worker(i))

\* the runs of a single call, over all the URLs of UrlParts
NameSpec == InitName /\ [][Next]_vars

\* the runs of a one-URL batch over the ways max_workers is set
PoolSpec == InitPool /\ [][Next]_vars

(***************************************************************************)
(* Properties of the batch runs.                                           *)
(***************************************************************************)
Returned == pc_main = "returned"

Succeeded == {i \in Requests : Status(i) = "Succeeded"}
Failed == {i \in Requests : Status(i) = "Failed"}

\* the turns of the collecting loop that recorded a success, and a failure
SuccessTurns == {k \in 1..Len(processed) : result[processed[k]] = "path"}
FailureTurns == {k \in 1..Len(processed) : result[processed[k]] \in {"None", "raised"}}

TurnsFor(i) == {k \in 1..Len(processed) : processed[k] = i}

\* C1: when download_files_parallel returns, every request has produced exactly
\* one result: each is processed once, and successes plus failures equal the
\* number of input URLs (duplicate URLs included).
C1_OneResultPerRequest ==
    Returned =>
        /\ \A i \in Requests : Cardinality(TurnsFor(i)) = 1
        /\ Cardinality(SuccessTurns) = Len(downloaded_files)
        /\ Cardinality(SuccessTurns) + Cardinality(FailureTurns) = Len(urls)

C1_Witness ==
    /\ Returned
    /\ Len(urls) = 2
    /\ urls[1] = urls[2]
    /\ Cardinality(SuccessTurns) = 1
    /\ Cardinality(FailureTurns) = 1

\* C2: at most max_workers requests are InFlight at any time; the others wait
\* Pending in the queue.
C2_InFlightBounded == Cardinality(InFlight) <= max_workers

C2_Witness ==
    /\ Cardinality(InFlight) = max_workers
    /\ \E i \in Requests : pc[i] = "queued"

\* C3: a failing request, whatever its error, leaves its siblings alone and
\* never aborts the batch: no exception leaves download_files_parallel, no
\* request ends without having run, a request that met no error succeeds, and
\* at the return the failures recorded are those of the requests that met one.
C3_FailuresAreIsolated ==
    /\ ~main_exc
    /\ pc_main # "raised"
    /\ \A i \in Requests : pc[i] = "done" => (Status(i) = "Failed" <=> exc[i] # "none")
    /\ Returned =>
          /\ \A i \in Requests : pc[i] = "done" /\ thread[i] = 0
          /\ Cardinality(FailureTurns) = Cardinality({i \in Requests : exc[i] # "none"})
          /\ Cardinality(SuccessTurns) = Cardinality({i \in Requests : exc[i] = "none"})

C3_Witness ==
    /\ Returned
    /\ Len(urls) = 2
    /\ exc[1] = "OSError"
    /\ result[1] = "raised"
    /\ completed = <<1, 2>>
    /\ Status(2) = "Succeeded"

\* number of entries of a list equal to a value
Count(list, v) == Cardinality({k \in 1..Len(list) : list[k] = v})

\* C4: the returned list holds exactly one entry, the destination path, for
\* each request that ended Succeeded and none for a request that ended Failed;
\* a request answered with an HTTP error status ends Failed.
C4_ReturnedListIsTheSuccesses ==
    /\ \A i \in Requests : exc[i] = "HTTPError" => Status(i) = "Failed"
    /\ Returned =>
          /\ Len(downloaded_files) = Cardinality(Succeeded)
          /\ \A i \in Succeeded :
                Count(downloaded_files, file_path[i]) =
                    Cardinality({j \in Succeeded : file_path[j] = file_path[i]})
          /\ \A k \in 1..Len(downloaded_files) :
                \E i \in Succeeded : downloaded_files[k] = file_path[i]

C4_Witness ==
    /\ Returned
    /\ Len(urls) = 2
    /\ exc[1] = "HTTPError"
    /\ Status(2) = "Succeeded"
    /\ downloaded_files = <<file_path[2]>>

\* C5: with every thread getting to run and every request answered in the
\* end, download_files_parallel returns, and only once every request is
\* Succeeded or Failed; also when every request fails.
C5_BatchAlwaysCompletes ==
    /\ <>Returned
    /\ [](Returned => \A i \in Requests : Status(i) \in {"Succeeded", "Failed"})

C5_Witness ==
    /\ Returned
    /\ Len(urls) = 2
    /\ Failed = Requests

\* C6: a request that times out is handled by the Timeout clause of
\* download_file, apart from HTTP errors and other transport failures.
C6_TimeoutHasItsOwnHandler ==
    \A i \in Requests : exc[i] = "Timeout" => handler[i] = "Timeout"

\* C7: when two requests with the same destination both succeed, the file
\* holds the whole body of one of them, never a mixture.
C7_LastWriterWins ==
    Returned =>
        \A i, j \in Succeeded :
            i # j /\ file_path[i] = file_path[j] =>
                files[file_path[i]] \in {Concat(recv[i]), Concat(recv[j])}

\* C8: download_file ends every call by returning the path or None; it never
\* raises to its caller.
C8_NeverRaises == \A i \in Requests : result[i] # "raised"

(***************************************************************************)
(* Properties of the filename, over the runs of one call.                  *)
(***************************************************************************)
\* the text after the last "/" of s, all of s when it has none
FinalSegment(s) ==
    LET n == Len(s)
        start == CHOOSE k \in 0..n :
                     /\ k = 0 \/ s[k] = "/"
                     /\ \A m \in (k + 1)..n : s[m] # "/"
    IN  SubSeq(s, start + 1, n)

\* a path with its percent-escapes decoded, token by token
DecodedToken(t) == IF t = Escape THEN S1("/") ELSE t
DecodedPath(tokens) == Flatten([k \in 1..Len(tokens) |-> DecodedToken(tokens[k])])

\* the calls that have derived their filename
Derived == {i \in Requests : file_path[i] # <<>>}
InFolder(name) == FolderPath \o S1("/") \o name

\* C9 as stated: a URL whose path has no final segment gets "downloaded_file".
C9_NoSegmentGivesDefault ==
    \A i \in Derived :
        FinalSegment(Flatten(parts[i].path)) = <<>> => file_path[i] = InFolder(DefaultName)

\* C9, amended: a URL whose path has no final segment gets the text after the
\* last "/" of the URL string as its filename ("h" for https://h, "?q" for
\* https://h/x/?q), and "downloaded_file" only when that text is empty too, that
\* is when the URL string itself ends with "/".
C9_NoSegmentGivesLastTokenOrDefault ==
    \A i \in Derived :
        FinalSegment(Flatten(parts[i].path)) = <<>> =>
            file_path[i] =
                IF FinalSegment(urls[i]) = <<>> THEN InFolder(DefaultName)
                ELSE InFolder(FinalSegment(urls[i]))

C9_Witness ==
    \E i \in Derived :
        /\ urls[i] = Https \o S1("/")
        /\ file_path[i] = InFolder(DefaultName)
        /\ pc[i] = "done"

\* C10: when the decoded path has a non-empty final segment, that segment is
\* the filename; only when it is empty is the last "/"-delimited token of the
\* URL used, and only when that is empty too the default name.
C10_FilenameIsDecodedFinalSegment ==
    \A i \in Derived :
        LET segment == FinalSegment(DecodedPath(parts[i].path))
            token == FinalSegment(urls[i])
        IN  file_path[i] =
                IF segment # <<>> THEN InFolder(segment)
                ELSE IF token # <<>> THEN InFolder(token)
                ELSE InFolder(DefaultName)

C10_Witness ==
    \E i \in Derived :
        /\ urls[i] = Https \o <<"/", "%", "2", "F", "x", "?", "q", "/">>
        /\ file_path[i] = InFolder(S1("x"))
        /\ pc[i] = "done"

(***************************************************************************)
(* Properties of calls made one after the other.                           *)
(***************************************************************************)
\* two calls with the same URL, the second started after the first returned:
\* a pool of one thread runs the calls of a batch one after the other
TwoCallsInSequence ==
    /\ max_workers = 1
    /\ Len(urls) = 2
    /\ urls[1] = urls[2]

\* C11: two calls of download_file in sequence with the same URL and folder,
\* both succeeding, return the same path; once the first has returned the set
\* of files of the folder no longer changes (no second file), and after the
\* second the file holds the body the second call received and nothing else.
C11_SecondCallOverwrites ==
    /\ [](TwoCallsInSequence /\ Succeeded = {1, 2} =>
            /\ ReturnValue(1) = ReturnValue(2)
            /\ exc[1] = "none" /\ exc[2] = "none"
            /\ DOMAIN files = {file_path[2]}
            /\ files[file_path[2]] = Concat(recv[2]))
    /\ [][TwoCallsInSequence /\ Status(1) = "Succeeded" => DOMAIN files' = DOMAIN files]_vars

\* the first call wrote two bytes, the second one byte
C11_Witness ==
    /\ TwoCallsInSequence
    /\ Succeeded = {1, 2}
    /\ completed = <<1, 2>>
    /\ Len(Concat(recv[1])) = 2
    /\ Len(Concat(recv[2])) = 1
    /\ files[file_path[1]] = Concat(recv[2])

(***************************************************************************)
(* Properties of the pool size.                                            *)
(***************************************************************************)
\* C12: once lines 87-95 have run, the pool size is the given max_workers when
\* one was given, and otherwise the smaller of twice the CPU count and 32,
\* which lies between 2 and 32.
C12_PoolSizeIsGivenOrDefault ==
    pc_main # "start" =>
        /\ PoolSize = max_workers
        /\ given # None => max_workers = given
        /\ given = None =>
              /\ max_workers = IF 2 * cpu_count < 32 THEN 2 * cpu_count ELSE 32
              /\ max_workers \in 2..32

\* 17 CPUs: twice the count is over the cap
C12_Witness ==
    /\ given = None
    /\ cpu_count = 17
    /\ max_workers = 32
    /\ Returned

(***************************************************************************)
(* Properties of the life of a request.                                    *)
(***************************************************************************)
\* the places of a call, in the order the code goes through them
Stages == <<"unsubmitted", "queued", "makedirs", "request", "open", "stream", "done">>
StageOf(p) == CHOOSE k \in 1..Len(Stages) : Stages[k] = p

StatusSteps ==
    {<<"Pending", "InFlight">>, <<"InFlight", "Succeeded">>, <<"InFlight", "Failed">>}

\* C13: a request's state changes only from Pending to InFlight and from
\* InFlight to Succeeded or Failed, so Succeeded and Failed are never left and
\* Pending and InFlight never come back; a call only moves forward through
\* its code, so the fetch of lines 41-42 begins at most once for each entry
\* of the URL list.
C13_RequestsOnlyAdvance ==
    [][\A i \in Requests :
          /\ Status(i)' # Status(i) => <<Status(i), Status(i)'>> \in StatusSteps
          /\ pc'[i] # pc[i] => StageOf(pc'[i]) > StageOf(pc[i])
          /\ pc'[i] = "request" /\ pc[i] # "request" => pc[i] = "makedirs"]_vars

\* one request timed out and stayed Failed while the other went on to succeed
C13_Witness ==
    /\ Len(urls) = 2
    /\ completed = <<1, 2>>
    /\ exc[1] = "Timeout"
    /\ Status(1) = "Failed"
    /\ Status(2) = "Succeeded"
    /\ Returned

(***************************************************************************)
(* Properties of the order of the returned list.                           *)
(***************************************************************************)
\* the place of a request in a list without repetitions
Place(list, i) == CHOOSE k \in 1..Len(list) : list[k] = i

\* the requests whose path the loop appended (lines 109-111), in that order
Collected == SelectSeq(processed, LAMBDA f : result[f] = "path")

Uncollected == {g \in Requests : pc[g] = "done" /\ \A k \in 1..Len(processed) : processed[k] # g}

\* C14 as stated: of two requests that both succeed, the one that completed
\* first has its path first in the returned list.
C14_ListInCompletionOrder ==
    Returned =>
        \A i, j \in Succeeded :
            Place(completed, i) < Place(completed, j) =>
                Place(Collected, i) < Place(Collected, j)

\* C14, amended: the returned list holds the paths in the order in which
\* as_completed handed the requests over: first, in any order, those it found
\* complete when the loop started, then every other one in the order of
\* completion, each turn taking the request that completed earliest among
\* those not yet handed over.
C14_ListInYieldOrder ==
    /\ [](downloaded_files = [k \in 1..Len(Collected) |-> file_path[Collected[k]]])
    /\ [][pc_main = "collect" /\ processed' # processed =>
            LET f == processed'[Len(processed')]
            IN  IF finished # {} THEN f \in finished
                ELSE \A g \in Uncollected : Place(completed, f) <= Place(completed, g)]_vars

\* the second request completed first and its path comes first
C14_Witness ==
    /\ Returned
    /\ Succeeded = {1, 2}
    /\ completed = <<2, 1>>
    /\ file_path[1] # file_path[2]
    /\ downloaded_files = <<file_path[2], file_path[1]>>

(***************************************************************************)
(* Properties of the file a call leaves.                                   *)
(***************************************************************************)
\* no other request of the batch has the destination of request i
Unshared(i) == \A j \in Requests \ {i} : FilePath(urls[j]) # FilePath(urls[i])

\* no other call writes to the destination of request i while i runs: no
\* other call has it, or the pool's one thread runs the calls one by one
NoConcurrentWriter(i) == Unshared(i) \/ max_workers = 1

\* the chunks of line 59: those that are not empty, in arrival order
NonEmptyChunks(i) == SelectSeq(recv[i], LAMBDA c : c # <<>>)

\* C15: when a call whose destination no other call writes to meanwhile
\* returns the path, the file holds exactly the non-empty chunks received, in
\* arrival order, and nothing of a file that was there before.
C15_FileIsTheBody ==
    [][\A i \in Requests :
          pc[i] = "stream" /\ result'[i] = "path" /\ NoConcurrentWriter(i) =>
              files'[file_path[i]] = Concat(NonEmptyChunks(i))]_vars

\* a keep-alive chunk, then one byte
C15_Witness ==
    \E i \in Succeeded :
        /\ Len(urls) = 2
        /\ Unshared(i)
        /\ recv[i] = <<<<>>, <<Byte(i, 1)>>>>
        /\ files[file_path[i]] = <<Byte(i, 1)>>

(***************************************************************************)
(* Properties of the calls that fail before the file is opened.            *)
(***************************************************************************)
\* where a call is before line 49
BeforeOpen == {"queued", "makedirs", "request"}

\* the errors only lines 41-42 raise (iter_content too can raise a
\* ConnectionError, once the file is open)
FetchOnlyErrors == {"HTTPError", "Timeout"}

\* the files of the folder are those of before the run, byte for byte
FilesUntouched == \A f \in DOMAIN files : files[f] = OldContent

\* C16: no step of a call before line 49, the one that fails on an HTTP error
\* status, a timeout or a connection failure included, changes a file or the
\* set of files; so a single call that fails that way leaves the file already
\* at its destination as it was and creates none (the folder may be new).
C16_FailedFetchLeavesFiles ==
    /\ [][\A i \in Requests :
            pc[i] \in BeforeOpen /\ pc'[i] # pc[i] => files' = files]_vars
    /\ [](Len(urls) = 1 /\ pc[1] = "done" /\ exc[1] \in FetchOnlyErrors =>
            FilesUntouched)

\* the request was answered with an error status; the old file is still there
C16_Witness ==
    /\ Len(urls) = 1
    /\ pc[1] = "done"
    /\ exc[1] = "HTTPError"
    /\ result[1] = "None"
    /\ dir_exists
    /\ files = (file_path[1] :> OldContent)

(***************************************************************************)
(* remove_first_line_in_file.py: the first lines of the markdown files of  *)
(* a directory are removed. A file is the sequence of its characters.      *)
(***************************************************************************)
\* download_files.py is not running
DownloadOff ==
    /\ parts = <<>> /\ urls = <<>>
    /\ given = 1 /\ cpu_count = 1 /\ max_workers = 1
    /\ dir_exists = FALSE /\ files = <<>>
    /\ pc_main = "off" /\ main_exc = FALSE /\ submitted = 0
    /\ finished = {} /\ waiter = <<>> /\ processed = <<>> /\ downloaded_files = <<>>
    /\ pc = <<>> /\ file_path = <<>> /\ thread = <<>> /\ exc = <<>> /\ handler = <<>>
    /\ result = <<>> /\ recv = <<>> /\ buf = <<>> /\ fpos = <<>> /\ completed = <<>>

NL == "\n"

\* file.readlines(): the lines, each with its newline, the last one maybe without
RECURSIVE ReadLines(_)
ReadLines(content) ==
    IF content = <<>> THEN <<>>
    ELSE LET k == Find(content, NL, 0)
         IN  IF k < 0 THEN <<content>>
             ELSE <<UpTo(content, k + 1)>> \o ReadLines(From(content, k + 1))

\* file.writelines(lines) on a file opened with 'w'
WriteLines(lines) == Flatten(lines)

\* line 8: the index in lines[2:]
FirstKept == 2

\* lines 3-8
remove_first_line(content) == WriteLines(From(ReadLines(content), FirstKept))

\* s.endswith(suffix)
EndsWith(s, suffix) ==
    Len(s) >= Len(suffix) /\ From(s, Len(s) - Len(suffix)) = suffix

Md == <<".", "m", "d">>

\* the files a directory can hold
FileNames == {S1("a") \o Md, S1("b") \o Md, S2("m", "d"), S1("a") \o Md \o S1("x")}
Contents == UNION {[1..n -> {"a", NL}] : n \in 0..MaxFileLen}
Directories ==
    UNION {[names -> Contents] : names \in {ns \in SUBSET FileNames : Cardinality(ns) <= MaxFiles}}

InitStrip ==
    /\ DownloadOff
    /\ rename_pc = "off" /\ media = <<>> /\ media_before = <<>>
    /\ globbed = {} /\ printed = {}
    /\ strip_pc = "start"
    /\ directory \in Directories
    /\ directory_before = directory
    /\ listing = {}

\* line 11: os.listdir(directory)
ListDir ==
    /\ strip_pc = "start"
    /\ listing' = DOMAIN directory
    /\ strip_pc' = "loop"
    /\ UNCHANGED <<downloadVars, renameVars, directory, directory_before>>

\* lines 12-14 for a name ending in '.md'
StripFile(filename) ==
    /\ strip_pc = "loop"
    /\ filename \in listing
    /\ EndsWith(filename, Md)
    /\ directory' = [directory EXCEPT ![filename] = remove_first_line(@)]
    /\ listing' = listing \ {filename}
    /\ UNCHANGED <<downloadVars, renameVars, strip_pc, directory_before>>

\* line 12 for any other name
SkipFile(filename) ==
    /\ strip_pc = "loop"
    /\ filename \in listing
    /\ ~EndsWith(filename, Md)
    /\ listing' = listing \ {filename}
    /\ UNCHANGED <<downloadVars, renameVars, strip_pc, directory, directory_before>>

\* the loop of line 11 is over
StripEnd ==
    /\ strip_pc = "loop"
    /\ listing = {}
    /\ strip_pc' = "done"
    /\ UNCHANGED <<downloadVars, renameVars, directory, directory_before, listing>>

StripNext ==
    \/ ListDir
    \/ \E filename \in FileNames : StripFile(filename)
    \/ \E filename \in FileNames : SkipFile(filename)
    \/ StripEnd

StripSpec == InitStrip /\ [][StripNext]_vars

\* a text without its first line: what follows the first newline
WithoutFirstLine(content) ==
    LET k == Find(content, NL, 0)
    IN  IF k < 0 THEN <<>> ELSE From(content, k + 1)

\* C17: when the script is done, every file whose name ends in '.md' holds
\* its original lines without the first one, and every other file is as it
\* was.
C17_FirstLineRemoved ==
    strip_pc = "done" =>
        /\ DOMAIN directory = DOMAIN directory_before
        /\ \A name \in DOMAIN directory :
              directory[name] =
                  IF EndsWith(name, Md) THEN WithoutFirstLine(directory_before[name])
                  ELSE directory_before[name]

(***************************************************************************)
(* rename_file.py: every "." is taken out of the names of the *.mp4 files  *)
(* of DIR. A name is the sequence of its characters.                       *)
(***************************************************************************)
Mp4 == <<".", "m", "p", "4">>

\* glob's "*.mp4": the name ends in .mp4 and is not a hidden file
Matches(name) == EndsWith(name, Mp4) /\ name[1] # "."

\* file.replace(".", "")
Replaced(name) == SelectSeq(name, LAMBDA c : c # ".")

\* the names a file of DIR can have: a stem, then an ending
Stems == UNION {[1..n -> {"a", "b", "."}] : n \in 0..MaxStemLen}
Endings == {Mp4, <<"m", "p", "4">>, <<".", "t", "x", "t">>}
MediaNames == {stem \o ending : stem \in Stems, ending \in Endings}

\* a directory: each file is known by the name it has at the start
MediaDirs ==
    {[name \in names |-> name] :
        names \in UNION {{{f[k] : k \in 1..n} : f \in [1..n -> MediaNames]} : n \in 0..MaxMedia}}

InitRename ==
    /\ DownloadOff
    /\ strip_pc = "off" /\ directory = <<>> /\ directory_before = <<>> /\ listing = {}
    /\ rename_pc = "start"
    /\ media \in MediaDirs
    /\ media_before = media
    /\ globbed = {}
    /\ printed = {}

\* line 8: glob.glob("*.mp4") returns the list the loop goes through
Glob ==
    /\ rename_pc = "start"
    /\ globbed' = {name \in DOMAIN media : Matches(name)}
    /\ rename_pc' = "loop"
    /\ UNCHANGED <<downloadVars, stripVars, media, media_before, printed>>

\* the directory once the file called src is called dst; a file that was
\* called dst is gone
Moved(dir, src, dst) ==
    [name \in (DOMAIN dir \ {src}) \cup {dst} |-> IF name = dst THEN dir[src] ELSE dir[name]]

\* line 10: os.rename(file, file.replace(".", "")), no file has the new name
Rename(file) ==
    /\ rename_pc = "loop"
    /\ file \in globbed
    /\ Replaced(file) \notin DOMAIN media
    /\ media' = Moved(media, file, Replaced(file))
    /\ globbed' = globbed \ {file}
    /\ UNCHANGED <<downloadVars, stripVars, rename_pc, media_before, printed>>

\* line 10 when a file has the new name, on POSIX: it is replaced silently
RenameOver(file) ==
    /\ rename_pc = "loop"
    /\ file \in globbed
    /\ Replaced(file) \in DOMAIN media
    /\ media' = Moved(media, file, Replaced(file))
    /\ globbed' = globbed \ {file}
    /\ UNCHANGED <<downloadVars, stripVars, rename_pc, media_before, printed>>

\* line 10 when a file has the new name, on Windows: FileExistsError ends the script
RenameRefused(file) ==
    /\ rename_pc = "loop"
    /\ file \in globbed
    /\ Replaced(file) \in DOMAIN media
    /\ rename_pc' = "raised"
    /\ UNCHANGED <<downloadVars, stripVars, media, media_before, globbed, printed>>

\* lines 12-13: the second glob, and its names printed
PrintFiles ==
    /\ rename_pc = "loop"
    /\ globbed = {}
    /\ printed' = {name \in DOMAIN media : Matches(name)}
    /\ rename_pc' = "done"
    /\ UNCHANGED <<downloadVars, stripVars, media, media_before, globbed>>

RenameNext ==
    \/ Glob
    \/ \E file \in MediaNames : Rename(file)
    \/ \E file \in MediaNames : RenameOver(file)
    \/ \E file \in MediaNames : RenameRefused(file)
    \/ PrintFiles

RenameSpec == InitRename /\ [][RenameNext]_vars

\* the files of a directory
FilesOf(dir) == {dir[name] : name \in DOMAIN dir}

\* C18: the rename loop loses no file: when the script is done the directory
\* holds as many files as at the start, and the same ones.
C18_NoFileLost ==
    rename_pc = "done" =>
        /\ Cardinality(DOMAIN media) = Cardinality(DOMAIN media_before)
        /\ FilesOf(media) = FilesOf(media_before)

====
